---- MODULE Spec2Model ----
(***************************************************************************)
(* RoboSync: directory reconciliation (file_list.rs) and the parallel      *)
(* executor (parallel_sync.rs), modelled as a state machine over a pair of *)
(* bounded directory trees.                                                *)
(*                                                                         *)
(* A tree is a function from relative paths to nodes.  The two roots are   *)
(* disjoint directories "src" and "dst"; an absolute path is a record      *)
(* [root, rel].  Symlink targets name locations outside both trees.        *)
(***************************************************************************)
EXTENDS Integers, Sequences, FiniteSets, TLC

VARIABLES
    fs,            \* fs[root][rel]: the node at that path ("none" kind = absent)
    external,      \* files created outside both roots by writes through a symlink
    options,       \* SyncOptions of the run
    pc,            \* position inside ParallelSyncer::sync_directories
    run,           \* 1 = first run, 2 = the same command run again
    source_files,  \* scan of the source root
    dest_files,    \* scan of the destination root (root entry removed)
    operations,    \* the plan: compare_file_lists_with_roots ++ purge operations
    dir_ops,       \* CreateDirectory operations still to execute
    small_files,   \* phase-2 operations classified small, not yet started
    large_files,   \* phase-2 operations classified large, not yet started
    delete_ops,    \* Delete operations still to execute
    inflight,      \* phase-2 operations a pool thread is executing
    failed,        \* an operation of the current parallel phase returned Err
    completed,     \* operations that have finished, in completion order
    scanned,       \* the two trees as the scanner of the current run saw them
    arg,           \* inputs of the pure-function specifications
    result         \* their outputs

vars == <<fs, external, options, pc, run, source_files, dest_files, operations,
          dir_ops, small_files, large_files, delete_ops, inflight, failed,
          completed, scanned, arg, result>>

runVars == <<fs, external, options, pc, run, source_files, dest_files, operations,
             dir_ops, small_files, large_files, delete_ops, inflight, failed,
             completed, scanned>>

-----------------------------------------------------------------------------
(* Bounds *)

MaxDepth == 3      \* deepest relative path of a tree
MaxEntries == 3    \* entries below the two roots, source and destination together
MaxTime == 2       \* modification times 1..MaxTime exist before the run
MaxText == 3       \* characters of a text handed to matches_pattern
MaxPattern == 3    \* characters of a glob pattern
MaxRetries == 3    \* largest max_retries of a RetryConfig
MaxRuns == 2       \* the command is run at most this many times
Workers == 2       \* ParallelSyncConfig.worker_threads

(* Program constants *)

SMALL_FILE_THRESHOLD == 1048576
MIN_SIZE_FOR_DELTA == 1024

-----------------------------------------------------------------------------
(* Paths *)

Names == {"x", "y"}

RECURSIVE Spine(_)
Spine(n) == IF n = 0 THEN <<>> ELSE Append(Spine(n - 1), "x")

\* The relative paths of the bounded trees: only directories named "x" nest.
Rels == UNION { { Append(Spine(i - 1), n) : n \in Names } : i \in 1..MaxDepth }

RootRel == <<>>

Parent(rel) == SubSeq(rel, 1, Len(rel) - 1)

IsPrefix(p, q) == Len(p) <= Len(q) /\ SubSeq(q, 1, Len(p)) = p

IsBeneath(q, p) == Len(p) < Len(q) /\ IsPrefix(p, q)

AbsPath(root, rel) == [root |-> root, rel |-> rel]

\* Path::components().count() of an absolute path: the root's own components
\* (the same for every path under one root) plus the relative ones.
RootComponents == 2
components_count(path) == RootComponents + Len(path.rel)

\* Lexicographic order on relative paths; a prefix sorts first, so a sequence
\* sorted by it is a pre-order walk (parents before their contents).
RECURSIVE RelLess(_, _)
RelLess(p, q) ==
    IF p = <<>> THEN q # <<>>
    ELSE IF q = <<>> THEN FALSE
    ELSE IF Head(p) = Head(q) THEN RelLess(Tail(p), Tail(q))
    ELSE Head(p) = "x"

RECURSIVE SortRels(_)
SortRels(S) ==
    IF S = {} THEN <<>>
    ELSE LET m == CHOOSE r \in S : \A o \in S \ {r} : RelLess(r, o)
         IN <<m>> \o SortRels(S \ {m})

-----------------------------------------------------------------------------
(* Nodes and trees *)

Data == {"d1", "d2", "big"}
Targets == {"t1", "td"}

\* metadata.len() of a regular file holding the given data
FileSize(d) == CASE d = "d1" -> 100
                 [] d = "d2" -> 2000
                 [] d = "big" -> SMALL_FILE_THRESHOLD
                 [] OTHER -> 0

\* blake3 digest of the data: distinct data, distinct digests
Blake3(d) == CASE d = "d1" -> "h1"
               [] d = "d2" -> "h2"
               [] d = "big" -> "h3"
               [] OTHER -> "h0"

\* "td" resolves to an existing directory outside both trees, "t1" to nothing
TargetIsDir(t) == t = "td"

NoNode == [kind |-> "none", data |-> "none", mtime |-> 0, target |-> "none"]
DirNode == [kind |-> "dir", data |-> "none", mtime |-> 0, target |-> "none"]
FileNode(d, t) == [kind |-> "file", data |-> d, mtime |-> t, target |-> "none"]
SymlinkNode(t) == [kind |-> "symlink", data |-> "none", mtime |-> 0, target |-> t]

\* The time of every write the run performs: later than every earlier mtime
Now == MaxTime + 1

EmptyTree == [r \in Rels |-> NoNode]

Exists(tree, rel) == rel = RootRel \/ (rel \in Rels /\ tree[rel].kind # "none")
KindAt(tree, rel) == IF rel = RootRel THEN "dir"
                     ELSE IF rel \in Rels THEN tree[rel].kind ELSE "none"

Present(tree) == { r \in Rels : tree[r].kind # "none" }

FileVariants == { FileNode(d, t) : d \in Data, t \in 1..MaxTime }
SymlinkVariants == { SymlinkNode(t) : t \in Targets }
NodeVariants == FileVariants \cup SymlinkVariants \cup {DirNode}

\* The paths at which a tree can grow: absent, with a directory as parent
Addable(tree) == { r \in Rels : tree[r].kind = "none" /\ KindAt(tree, Parent(r)) = "dir" }

\* All trees with at most n entries below the root
RECURSIVE TreesUpTo(_)
TreesUpTo(n) ==
    IF n = 0 THEN {EmptyTree}
    ELSE LET S == TreesUpTo(n - 1)
         IN S \cup { [t EXCEPT ![r] = v] : <<t, r, v>> \in
                        { <<t, r, v>> \in S \X Rels \X NodeVariants : r \in Addable(t) } }

\* The pairs (source tree, destination tree) a run can start from
TreePairs ==
    { p \in TreesUpTo(MaxEntries) \X TreesUpTo(MaxEntries) :
        Cardinality(Present(p[1])) + Cardinality(Present(p[2])) <= MaxEntries }

-----------------------------------------------------------------------------
(* Scanner: generate_file_list_with_options_and_progress *)

NoChecksum == "none"

\* One FileInfo, built from symlink_metadata of the path
file_info(tree, root, rel, opts) ==
    LET n == IF rel = RootRel THEN DirNode ELSE tree[rel]
    IN [ path           |-> AbsPath(root, rel),
         size           |-> IF n.kind = "file" THEN FileSize(n.data)
                            ELSE IF n.kind = "symlink" THEN Len(n.target) ELSE 0,
         modified       |-> n.mtime,
         is_directory   |-> n.kind = "dir",
         is_symlink     |-> n.kind = "symlink",
         symlink_target |-> n.target,
         checksum       |-> IF opts.checksum /\ n.kind = "file"
                            THEN Blake3(n.data) ELSE NoChecksum ]

\* The walk yields the root first, then every entry, parents before contents;
\* a symlink is never followed.  The options of this model carry no exclude
\* patterns and no size bounds, so should_include_file accepts every entry.
generate_file_list(tree, root, opts) ==
    LET order == <<RootRel>> \o SortRels(Present(tree))
    IN [ i \in 1..Len(order) |-> file_info(tree, root, order[i], opts) ]

\* files.retain(|f| f.path != *destination)
retain_not_root(files, root) ==
    SelectSeq(files, LAMBDA f : f.path # AbsPath(root, RootRel))

-----------------------------------------------------------------------------
(* Differ: file_list.rs *)

NoTarget == "none"

Op(type, path, use_delta, target) ==
    [type |-> type, path |-> path, use_delta |-> use_delta, target |-> target]

Create(path) == Op("Create", path, FALSE, NoTarget)
Update(path, use_delta) == Op("Update", path, use_delta, NoTarget)
Delete(path) == Op("Delete", path, FALSE, NoTarget)
CreateDirectory(path) == Op("CreateDirectory", path, FALSE, NoTarget)
CreateSymlink(path, target) == Op("CreateSymlink", path, FALSE, target)
UpdateSymlink(path, target) == Op("UpdateSymlink", path, FALSE, target)

RECURSIVE Flatten(_)
Flatten(seqs) == IF seqs = <<>> THEN <<>> ELSE Head(seqs) \o Flatten(Tail(seqs))

\* A comparison that lets a newer source win before the hashes are looked at
needs_update_mtime_first(source, target, opts) ==
    \/ source.modified > target.modified
    \/ IF opts.checksum /\ source.checksum # NoChecksum /\ target.checksum # NoChecksum
       THEN source.checksum # target.checksum
       ELSE source.size # target.size

\* Determine if a file needs to be updated
needs_update(source, target, opts) ==
    IF opts.checksum /\ source.checksum # NoChecksum /\ target.checksum # NoChecksum
    THEN source.checksum # target.checksum
    ELSE source.modified > target.modified \/ source.size # target.size

abs_diff(a, b) == IF a >= b THEN a - b ELSE b - a
max(a, b) == IF a >= b THEN a ELSE b

\* size_diff as f64 / max as f64 < 0.5: both conversions are exact below 2^53
\* and the quotient is correctly rounded, so the comparison is that of the
\* exact fraction size_diff / max with 1/2.  A zero max never reaches the
\* division (both sizes are at least MIN_SIZE_FOR_DELTA there).
RatioLess(num, den, rnum, rden) == num * rden < rnum * den

MAX_SIZE_DIFFERENCE_RATIO == [num |-> 1, den |-> 2]

\* A ratio test that lets a difference of exactly one half through
should_use_delta_inclusive(source, target) ==
    IF source.size < MIN_SIZE_FOR_DELTA \/ target.size < MIN_SIZE_FOR_DELTA
    THEN FALSE
    ELSE 2 * abs_diff(source.size, target.size) <= max(target.size, source.size)

\* Determine if delta algorithm should be used for update
should_use_delta(source, target) ==
    IF source.size < MIN_SIZE_FOR_DELTA \/ target.size < MIN_SIZE_FOR_DELTA
    THEN FALSE
    ELSE RatioLess(abs_diff(source.size, target.size), max(target.size, source.size),
                   MAX_SIZE_DIFFERENCE_RATIO.num, MAX_SIZE_DIFFERENCE_RATIO.den)

\* A lookup that forgets strip_prefix: keyed by the path with the root still on it
target_lookup_unstripped(target, dest_root, rel) ==
    { i \in 1..Len(target) : target[i].path.rel = <<dest_root>> \o rel }

\* target_map.get(&relative_path): the destination entry with that relative path
target_lookup(target, dest_root, rel) ==
    { i \in 1..Len(target) : target[i].path.root = dest_root /\ target[i].path.rel = rel }

\* The operations one source entry contributes (the body of the parallel map)
source_entry_operations(source_file, target, dest_root, opts) ==
    LET hit == target_lookup(target, dest_root, source_file.path.rel)
        p == source_file.path
    IN IF hit # {}
       THEN LET target_file == target[CHOOSE i \in hit : TRUE]
            IN IF source_file.is_symlink /\ target_file.is_symlink
               THEN IF source_file.symlink_target # target_file.symlink_target
                       /\ source_file.symlink_target # NoTarget
                    THEN <<UpdateSymlink(p, source_file.symlink_target)>>
                    ELSE <<>>
               ELSE IF source_file.is_symlink /\ ~target_file.is_symlink
               THEN <<Delete(p)>> \o
                    (IF source_file.symlink_target # NoTarget
                     THEN <<CreateSymlink(p, source_file.symlink_target)>> ELSE <<>>)
               ELSE IF ~source_file.is_symlink /\ target_file.is_symlink
               THEN <<Delete(p)>> \o
                    (IF source_file.is_directory
                     THEN <<CreateDirectory(p)>> ELSE <<Create(p)>>)
               ELSE IF source_file.is_directory /\ target_file.is_directory
               THEN <<>>
               ELSE IF source_file.is_directory /\ ~target_file.is_directory
               THEN <<Delete(p), CreateDirectory(p)>>
               ELSE IF ~source_file.is_directory /\ target_file.is_directory
               THEN <<Delete(p), Create(p)>>
               ELSE IF needs_update(source_file, target_file, opts)
               THEN <<Update(p, should_use_delta(source_file, target_file))>>
               ELSE <<>>
       ELSE IF source_file.is_symlink
            THEN IF source_file.symlink_target # NoTarget
                 THEN <<CreateSymlink(p, source_file.symlink_target)>> ELSE <<>>
            ELSE IF source_file.is_directory
            THEN <<CreateDirectory(p)>>
            ELSE <<Create(p)>>

\* processed_targets: the relative paths found on both sides
processed_targets(source, target, source_root, dest_root) ==
    { source[i].path.rel : i \in
        { i \in 1..Len(source) : source[i].path.root = source_root
                                 /\ target_lookup(target, dest_root, source[i].path.rel) # {} } }

\* The target-only pass without the purge/mirror test in front of it
target_only_deletes_unguarded(source, target, source_root, dest_root, opts) ==
    LET done == processed_targets(source, target, source_root, dest_root)
        keep == SelectSeq(target, LAMBDA f : f.path.root = dest_root
                                             /\ f.path.rel \notin done)
    IN [ i \in 1..Len(keep) |-> Delete(keep[i].path) ]

\* Entries that exist only in the target; skipped when purge or mirror is set
target_only_deletes(source, target, source_root, dest_root, opts) ==
    IF ~opts.purge /\ ~opts.mirror
    THEN LET done == processed_targets(source, target, source_root, dest_root)
             keep == SelectSeq(target, LAMBDA f : f.path.root = dest_root
                                                  /\ f.path.rel \notin done)
         IN [ i \in 1..Len(keep) |-> Delete(keep[i].path) ]
    ELSE <<>>

\* Compare two file lists, normalizing paths relative to their roots
compare_file_lists_with_roots(source, target, source_root, dest_root, opts) ==
    LET mine == SelectSeq(source, LAMBDA f : f.path.root = source_root)
        per == [ i \in 1..Len(mine) |->
                   source_entry_operations(mine[i], target, dest_root, opts) ]
    IN Flatten(per) \o target_only_deletes(source, target, source_root, dest_root, opts)

\* Stable sort of (operation, depth) pairs by descending depth
RECURSIVE sort_deepest_first(_)
sort_deepest_first(ops) ==
    IF ops = <<>> THEN <<>>
    ELSE LET top == CHOOSE i \in 1..Len(ops) :
                      /\ \A j \in 1..Len(ops) : components_count(ops[j].path)
                                                   <= components_count(ops[i].path)
                      /\ \A j \in 1..(i - 1) : components_count(ops[j].path)
                                                   < components_count(ops[i].path)
         IN <<ops[top]>> \o
            sort_deepest_first(SubSeq(ops, 1, top - 1) \o SubSeq(ops, top + 1, Len(ops)))

\* Find files/directories in destination that should be purged
find_purge_operations(source_files_, dest_files_, source_root, dest_root) ==
    LET source_paths == { source_files_[i].path.rel : i \in
                            { i \in 1..Len(source_files_) :
                                source_files_[i].path.root = source_root } }
        extra == SelectSeq(dest_files_, LAMBDA f : f.path.root = dest_root
                                                     /\ f.path.rel \notin source_paths)
        files == SelectSeq(extra, LAMBDA f : ~f.is_directory)
        dirs == SelectSeq(extra, LAMBDA f : f.is_directory)
        file_ops == [ i \in 1..Len(files) |-> Delete(files[i].path) ]
        dir_ops_ == [ i \in 1..Len(dirs) |-> Delete(dirs[i].path) ]
    IN file_ops \o sort_deepest_first(dir_ops_)

\* The plan sync_directories builds (parallel_sync.rs 283-359)
build_plan(source_files_, dest_files_, opts) ==
    compare_file_lists_with_roots(source_files_, dest_files_, "src", "dst", opts)
    \o (IF opts.purge \/ opts.mirror
        THEN find_purge_operations(source_files_, dest_files_, "src", "dst")
        ELSE <<>>)

-----------------------------------------------------------------------------
(* The filesystem calls the executor makes.  A world is the pair of the     *)
(* trees and the files created at dangling symlink targets; every call      *)
(* returns the world it leaves and whether it returned Ok.                  *)

World(f, e) == [fs |-> f, external |-> e]
Ok(w) == [ok |-> TRUE, fs |-> w.fs, external |-> w.external]
Err(w) == [ok |-> FALSE, fs |-> w.fs, external |-> w.external]

ParentPath(path) == AbsPath(path.root, Parent(path.rel))

NodeAt(f, path) == IF path.rel = RootRel THEN DirNode
                   ELSE IF path.rel \in Rels THEN f[path.root][path.rel] ELSE NoNode

\* Path resolution of every component but the last: a symlink to the external
\* directory continues there, any other non-directory fails the lookup.
\* status: "ok" (at = where the last component lives), "noparent" (a component
\* is missing) or "notdir".
RECURSIVE Walk(_, _, _, _)
Walk(f, root, done, rest) ==
    IF Len(rest) <= 1
    THEN [status |-> "ok", at |-> AbsPath(root, done \o rest)]
    ELSE LET here == done \o <<Head(rest)>>
             n == NodeAt(f, AbsPath(root, here))
         IN CASE n.kind = "dir" -> Walk(f, root, here, Tail(rest))
              [] n.kind = "symlink" /\ TargetIsDir(n.target) -> Walk(f, n.target, <<>>, Tail(rest))
              [] n.kind = "none" -> [status |-> "noparent", at |-> AbsPath(root, here)]
              [] OTHER -> [status |-> "notdir", at |-> AbsPath(root, here)]

Lookup(f, path) == Walk(f, path.root, <<>>, path.rel)

\* fs::symlink_metadata: the kind of the path itself, "none" when it fails
symlink_metadata(f, path) ==
    LET l == Lookup(f, path)
    IN IF l.status = "ok" THEN NodeAt(f, l.at) ELSE NoNode

SetNode(w, at, node) ==
    IF at.rel \in Rels
    THEN World([w.fs EXCEPT ![at.root][at.rel] = node], w.external)
    ELSE w

\* fs::create_dir_all
RECURSIVE create_dir_all(_, _)
create_dir_all(w, path) ==
    IF path.rel = RootRel THEN Ok(w)
    ELSE LET l == Lookup(w.fs, path)
         IN CASE l.status = "notdir" -> Err(w)
              [] l.status = "noparent" ->
                    LET up == create_dir_all(w, ParentPath(path))
                    IN IF ~up.ok THEN up
                       ELSE LET l2 == Lookup(up.fs, path)
                            IN IF l2.status = "ok" /\ NodeAt(up.fs, l2.at).kind = "none"
                               THEN Ok(SetNode(up, l2.at, DirNode))
                               ELSE Err(up)
              [] OTHER ->
                    LET n == NodeAt(w.fs, l.at)
                    IN CASE n.kind = "none" -> Ok(SetNode(w, l.at, DirNode))
                         [] n.kind = "dir" -> Ok(w)
                         [] n.kind = "symlink" /\ TargetIsDir(n.target) -> Ok(w)
                         [] OTHER -> Err(w)

\* fs::remove_file
remove_file(w, path) ==
    LET l == Lookup(w.fs, path)
        n == NodeAt(w.fs, l.at)
    IN IF l.status = "ok" /\ n.kind \in {"file", "symlink"}
       THEN Ok(SetNode(w, l.at, NoNode))
       ELSE Err(w)

\* fs::remove_dir_all on a directory: the directory and everything beneath it
remove_dir_all(w, path) ==
    LET l == Lookup(w.fs, path)
        n == NodeAt(w.fs, l.at)
    IN IF l.status = "ok" /\ n.kind = "dir" /\ l.at.rel # RootRel
       THEN Ok(World([w.fs EXCEPT ![l.at.root] =
                        [r \in Rels |-> IF IsPrefix(l.at.rel, r) THEN NoNode ELSE @[r]]],
                     w.external))
       ELSE Err(w)

\* std::os::unix::fs::symlink
symlink(w, target, path) ==
    LET l == Lookup(w.fs, path)
    IN IF l.status = "ok" /\ NodeAt(w.fs, l.at).kind = "none"
       THEN Ok(SetNode(w, l.at, SymlinkNode(target)))
       ELSE Err(w)

\* fs::copy: the source must be a regular file; the destination is opened for
\* writing, which follows a symlink in the last component.
copy(w, from, to) ==
    LET lf == Lookup(w.fs, from)
        nf == NodeAt(w.fs, lf.at)
        lt == Lookup(w.fs, to)
        nt == NodeAt(w.fs, lt.at)
    IN IF lf.status # "ok" \/ nf.kind # "file" \/ lt.status # "ok" THEN Err(w)
       ELSE CASE nt.kind \in {"none", "file"} -> Ok(SetNode(w, lt.at, FileNode(nf.data, Now)))
              [] nt.kind = "symlink" /\ ~TargetIsDir(nt.target) ->
                    Ok(World(w.fs, [w.external EXCEPT ![nt.target] = nf.data]))
              [] OTHER -> Err(w)

-----------------------------------------------------------------------------
(* Executor: parallel_sync.rs *)

\* map_source_to_dest joining only the file name onto the destination root
map_source_to_dest_file_name(source_file, source_root, dest_root) ==
    [ok |-> source_file.root = source_root,
     path |-> AbsPath(dest_root, SubSeq(source_file.rel, Len(source_file.rel),
                                        Len(source_file.rel)))]

\* Map a source path to the corresponding destination path
map_source_to_dest(source_file, source_root, dest_root) ==
    [ok |-> source_file.root = source_root, path |-> AbsPath(dest_root, source_file.rel)]

\* Check if a file operation involves a small file
is_small_file_operation(operation, source_files_) ==
    IF operation.type \in {"Create", "Update"}
    THEN LET hit == { i \in 1..Len(source_files_) : source_files_[i].path = operation.path }
         IN IF hit = {} THEN TRUE
            ELSE source_files_[CHOOSE i \in hit : \A j \in hit : i <= j].size
                    < SMALL_FILE_THRESHOLD
    ELSE TRUE

\* execute_operation, for the operations the sequential phases hand it
execute_operation(w, operation, source_root, dest_root) ==
    CASE operation.type = "CreateDirectory" ->
            LET d == map_source_to_dest(operation.path, source_root, dest_root)
            IN IF d.ok THEN create_dir_all(w, d.path) ELSE Err(w)
      [] operation.type = "Delete" ->
            LET metadata == symlink_metadata(w.fs, operation.path)
            IN CASE metadata.kind = "none" -> Err(w)
                 [] metadata.kind \in {"symlink", "file"} -> remove_file(w, operation.path)
                 [] OTHER -> remove_dir_all(w, operation.path)
      [] OTHER -> Err(w)

\* The closure the pool runs on every small operation (lines 757-829)
small_file_task(w, operation, source_root, dest_root) ==
    IF operation.type \in {"Create", "Update"}
    THEN LET metadata == symlink_metadata(w.fs, operation.path)
             d == map_source_to_dest(operation.path, source_root, dest_root)
         IN IF metadata.kind = "symlink"
            THEN IF ~d.ok THEN Err(w)
                 ELSE LET gone == remove_file(w, d.path)
                      IN symlink(World(gone.fs, gone.external), metadata.target, d.path)
            ELSE IF ~d.ok THEN Err(w)
                 ELSE copy(w, operation.path, d.path)
    ELSE Ok(w)

\* execute_operation_parallel, for the operations classified large
execute_operation_parallel(w, operation, source_root, dest_root, opts) ==
    LET d == map_source_to_dest(operation.path, source_root, dest_root)
    IN CASE operation.type = "Create" ->
             IF ~d.ok THEN Err(w)
             ELSE LET made == create_dir_all(w, ParentPath(d.path))
                      copied == copy(World(made.fs, made.external), operation.path, d.path)
                  IN IF ~copied.ok THEN copied
                     ELSE IF opts.move_files /\ ~opts.dry_run
                     THEN remove_file(World(copied.fs, copied.external), operation.path)
                     ELSE copied
         [] operation.type = "Update" ->
             IF ~d.ok \/ symlink_metadata(w.fs, operation.path).kind = "none" THEN Err(w)
             ELSE LET copied == copy(w, operation.path, d.path)
                  IN IF ~copied.ok THEN copied
                     ELSE IF opts.move_files /\ ~opts.dry_run
                     THEN remove_file(World(copied.fs, copied.external), operation.path)
                     ELSE copied
         [] OTHER -> Err(w)

\* The create_dir_all calls a pool thread issues while it runs an operation:
\* none in the small-file closure, the parent of the destination in the
\* Create arm of execute_operation_parallel
worker_create_dir_calls(phase, operation, source_root, dest_root) ==
    IF phase = "large" /\ operation.type = "Create"
    THEN LET d == map_source_to_dest(operation.path, source_root, dest_root)
         IN IF d.ok THEN {ParentPath(d.path)} ELSE {}
    ELSE {}

\* Pre-create the parent directory of every small Create/Update (lines 723-743);
\* the results of create_dir_all are ignored.
RECURSIVE create_all(_, _)
create_all(w, dirs) ==
    IF dirs = {} THEN w
    ELSE LET d == CHOOSE x \in dirs : \A y \in dirs : Len(x.rel) <= Len(y.rel)
             r == create_dir_all(w, d)
         IN create_all(World(r.fs, r.external), dirs \ {d})

precreate_parents(w, small, source_root, dest_root) ==
    LET dirs_to_create ==
          { ParentPath(map_source_to_dest(op.path, source_root, dest_root).path) :
              op \in { o \in small : o.type \in {"Create", "Update"}
                                     /\ o.path.root = source_root
                                     /\ o.path.rel # RootRel } }
    IN create_all(w, dirs_to_create)

SeqToSet(q) == { q[i] : i \in 1..Len(q) }

-----------------------------------------------------------------------------
(* ParallelSyncer::sync_directories as a state machine *)

SyncOptions(purge, mirror, checksum, move_files) ==
    [purge |-> purge, mirror |-> mirror, checksum |-> checksum,
     move_files |-> move_files, dry_run |-> FALSE]

OptionSets ==
    { SyncOptions(p, m, c, v) : p \in BOOLEAN, m \in {FALSE}, c \in BOOLEAN, v \in BOOLEAN }
    \cup { SyncOptions(FALSE, TRUE, FALSE, FALSE) }

NoExternal == [t \in Targets |-> "none"]

Idle == /\ source_files = <<>> /\ dest_files = <<>> /\ operations = <<>>
        /\ dir_ops = <<>> /\ small_files = {} /\ large_files = {}
        /\ delete_ops = <<>> /\ inflight = {} /\ failed = FALSE
        /\ completed = <<>>

Init ==
    /\ \E p \in TreePairs : fs = [src |-> p[1], dst |-> p[2], td |-> EmptyTree]
    /\ external = NoExternal
    /\ options \in OptionSets
    /\ pc = "start"
    /\ run = 1
    /\ Idle
    /\ scanned = fs
    /\ arg = <<>>
    /\ result = <<>>

\* Scan both roots, build the plan and split it into the three phases
\* (lines 190-364 and 665-697)
Analyze ==
    /\ pc = "start"
    /\ LET src_list == generate_file_list(fs["src"], "src", options)
           dst_list == retain_not_root(generate_file_list(fs["dst"], "dst", options), "dst")
           plan == build_plan(src_list, dst_list, options)
           dirs == SelectSeq(plan, LAMBDA op : op.type = "CreateDirectory")
           rest == SelectSeq(plan, LAMBDA op : op.type # "CreateDirectory")
           files == SelectSeq(rest, LAMBDA op : op.type # "Delete")
           dels == SelectSeq(rest, LAMBDA op : op.type = "Delete")
       IN /\ source_files' = src_list
          /\ dest_files' = dst_list
          /\ operations' = plan
          /\ IF plan = <<>>
             THEN /\ pc' = "done"
                  /\ UNCHANGED <<dir_ops, small_files, large_files, delete_ops>>
             ELSE /\ pc' = "dirs"
                  /\ dir_ops' = dirs
                  /\ small_files' = { op \in SeqToSet(files) :
                                        is_small_file_operation(op, src_list) }
                  /\ large_files' = { op \in SeqToSet(files) :
                                        ~is_small_file_operation(op, src_list) }
                  /\ delete_ops' = dels
    /\ scanned' = fs
    /\ UNCHANGED <<fs, external, options, run, inflight, failed, completed, arg, result>>

\* One iteration of the sequential CreateDirectory loop (lines 676-690)
CreateDirStep ==
    /\ pc = "dirs"
    /\ dir_ops # <<>>
    /\ LET r == execute_operation(World(fs, external), Head(dir_ops), "src", "dst")
       IN /\ fs' = r.fs
          /\ external' = r.external
          /\ IF r.ok
             THEN /\ dir_ops' = Tail(dir_ops)
                  /\ completed' = Append(completed, Head(dir_ops))
                  /\ pc' = pc
             ELSE /\ pc' = "error"
                  /\ UNCHANGED <<dir_ops, completed>>
    /\ UNCHANGED <<options, run, source_files, dest_files, operations, small_files,
                   large_files, delete_ops, inflight, failed, scanned, arg, result>>

\* The directory loop is over: pre-create the parents and open the small phase
BeginSmall ==
    /\ pc = "dirs"
    /\ dir_ops = <<>>
    /\ LET w == IF small_files = {} THEN World(fs, external)
                ELSE precreate_parents(World(fs, external), small_files, "src", "dst")
       IN /\ fs' = w.fs
          /\ external' = w.external
    /\ pc' = "small"
    /\ UNCHANGED <<options, run, source_files, dest_files, operations, dir_ops,
                   small_files, large_files, delete_ops, inflight, failed, completed,
                   scanned, arg, result>>

\* A pool thread takes an operation of the current parallel phase
CanStart(pending) ==
    /\ ~failed
    /\ pending # {}
    /\ Cardinality(inflight) < Workers

StartSmall(op) ==
    /\ pc = "small"
    /\ CanStart(small_files)
    /\ op \in small_files
    /\ small_files' = small_files \ {op}
    /\ inflight' = inflight \cup {op}
    /\ UNCHANGED <<fs, external, options, pc, run, source_files, dest_files, operations,
                   dir_ops, large_files, delete_ops, failed, completed, scanned, arg, result>>

FinishSmall(op) ==
    /\ pc = "small"
    /\ op \in inflight
    /\ LET r == small_file_task(World(fs, external), op, "src", "dst")
       IN /\ fs' = r.fs
          /\ external' = r.external
          /\ failed' = (failed \/ ~r.ok)
          /\ completed' = IF r.ok THEN Append(completed, op) ELSE completed
    /\ inflight' = inflight \ {op}
    /\ UNCHANGED <<options, pc, run, source_files, dest_files, operations, dir_ops,
                   small_files, large_files, delete_ops, scanned, arg, result>>

\* A pool that hands control back as soon as nothing is left to start
PhaseOver_without_join(pending) == pending = {} \/ failed

\* pool.install returns once every started task has returned
PhaseOver(pending) == inflight = {} /\ (pending = {} \/ failed)

EndSmall ==
    /\ pc = "small"
    /\ PhaseOver(small_files)
    /\ pc' = IF failed THEN "error" ELSE "large"
    /\ UNCHANGED <<fs, external, options, run, source_files, dest_files, operations,
                   dir_ops, small_files, large_files, delete_ops, inflight, failed,
                   completed, scanned, arg, result>>

StartLarge(op) ==
    /\ pc = "large"
    /\ CanStart(large_files)
    /\ op \in large_files
    /\ large_files' = large_files \ {op}
    /\ inflight' = inflight \cup {op}
    /\ UNCHANGED <<fs, external, options, pc, run, source_files, dest_files, operations,
                   dir_ops, small_files, delete_ops, failed, completed, scanned, arg, result>>

FinishLarge(op) ==
    /\ pc = "large"
    /\ op \in inflight
    /\ LET r == execute_operation_parallel(World(fs, external), op, "src", "dst", options)
       IN /\ fs' = r.fs
          /\ external' = r.external
          /\ failed' = (failed \/ ~r.ok)
          /\ completed' = IF r.ok THEN Append(completed, op) ELSE completed
    /\ inflight' = inflight \ {op}
    /\ UNCHANGED <<options, pc, run, source_files, dest_files, operations, dir_ops,
                   small_files, large_files, delete_ops, scanned, arg, result>>

EndLarge ==
    /\ pc = "large"
    /\ PhaseOver(large_files)
    /\ pc' = IF failed THEN "error" ELSE "deletes"
    /\ UNCHANGED <<fs, external, options, run, source_files, dest_files, operations,
                   dir_ops, small_files, large_files, delete_ops, inflight, failed,
                   completed, scanned, arg, result>>

\* One iteration of the sequential Delete loop (lines 870-879)
DeleteStep ==
    /\ pc = "deletes"
    /\ delete_ops # <<>>
    /\ LET r == execute_operation(World(fs, external), Head(delete_ops), "src", "dst")
       IN /\ fs' = r.fs
          /\ external' = r.external
          /\ IF r.ok
             THEN /\ delete_ops' = Tail(delete_ops)
                  /\ completed' = Append(completed, Head(delete_ops))
                  /\ pc' = pc
             ELSE /\ pc' = "error"
                  /\ UNCHANGED <<delete_ops, completed>>
    /\ UNCHANGED <<options, run, source_files, dest_files, operations, dir_ops,
                   small_files, large_files, inflight, failed, scanned, arg, result>>

\* Ok(final_stats)
Finish ==
    /\ pc = "deletes"
    /\ delete_ops = <<>>
    /\ pc' = "done"
    /\ UNCHANGED <<fs, external, options, run, source_files, dest_files, operations,
                   dir_ops, small_files, large_files, delete_ops, inflight, failed,
                   completed, scanned, arg, result>>

\* The same command is run again on the trees the previous run left
Rerun ==
    /\ pc = "done"
    /\ run < MaxRuns
    /\ run' = run + 1
    /\ pc' = "start"
    /\ source_files' = <<>> /\ dest_files' = <<>> /\ operations' = <<>>
    /\ dir_ops' = <<>> /\ small_files' = {} /\ large_files' = {}
    /\ delete_ops' = <<>> /\ inflight' = {} /\ failed' = FALSE
    /\ completed' = <<>>
    /\ UNCHANGED <<fs, external, options, scanned, arg, result>>

AllOps == SeqToSet(operations)

Next ==
    \/ Analyze
    \/ CreateDirStep
    \/ BeginSmall
    \/ \E op \in AllOps : StartSmall(op)
    \/ \E op \in AllOps : FinishSmall(op)
    \/ EndSmall
    \/ \E op \in AllOps : StartLarge(op)
    \/ \E op \in AllOps : FinishLarge(op)
    \/ EndLarge
    \/ DeleteStep
    \/ Finish
    \/ Rerun

Spec == Init /\ [][Next]_vars

-----------------------------------------------------------------------------
(* Properties of a run *)

Purging == options.purge \/ options.mirror

SameEntry(a, b) ==
    /\ a.kind = b.kind
    /\ a.kind = "file" => a.data = b.data
    /\ a.kind = "symlink" => a.target = b.target

\* C1 (completeness): once a run with purge or mirror has returned success,
\* every path the scanner found in the source is in the destination with the
\* same kind, content and symlink target, and the destination holds no other path.
C1_Completeness ==
    (pc = "done" /\ Purging) =>
        \A rel \in Rels : SameEntry(scanned["src"][rel], fs["dst"][rel])

\* C2 (idempotence): the plan of a second run of the same command on the trees
\* the first run left contains zero operations.
C2_SecondPlanEmpty ==
    (run > 1 /\ pc # "start") => operations = <<>>

\* C3 (frame): with move_files unset no step of the run changes anything under
\* the source root, and no step writes outside the destination root.
C3_OnlyDestinationMutated ==
    [][~options.move_files =>
          /\ fs'["src"] = fs["src"]
          /\ fs'["td"] = fs["td"]
          /\ external' = external]_vars

PlanIndex == 1..Len(operations)

\* C4: every Delete of the plan names a path inside the destination root.
C4_DeleteInsideDestination ==
    \A i \in PlanIndex :
        operations[i].type = "Delete" => operations[i].path.root = "dst"

\* C5 (plan ordering): every CreateDirectory precedes every operation whose
\* relative path lies beneath it, and every Delete comes after every
\* operation that is not a Delete.
C5_PlanOrdering ==
    \A i, j \in PlanIndex :
        /\ (/\ operations[i].type = "CreateDirectory"
            /\ IsBeneath(operations[j].path.rel, operations[i].path.rel)) => i < j
        /\ (/\ operations[i].type = "Delete"
            /\ operations[j].type # "Delete") => j < i

Done == SeqToSet(completed)

OfType(ops, types) == SelectSeq(ops, LAMBDA op : op.type \in types)

IsPrefixSeq(a, b) == Len(a) <= Len(b) /\ SubSeq(b, 1, Len(a)) = a

\* C6 (phase ordering): under every interleaving of the pool, an operation
\* other than CreateDirectory and Delete is started only after every
\* CreateDirectory of the plan has completed; a Delete is started only after
\* every other operation has completed; CreateDirectory and Delete
\* operations complete one at a time in plan order.
C6_PhaseOrdering ==
    /\ (\E op \in inflight \cup Done : op.type \notin {"CreateDirectory", "Delete"})
          => \A d \in AllOps : d.type = "CreateDirectory" => d \in Done
    /\ (pc = "deletes" \/ \E op \in Done : op.type = "Delete")
          => /\ inflight = {}
             /\ \A op \in AllOps : op.type # "Delete" => op \in Done
    /\ IsPrefixSeq(OfType(completed, {"CreateDirectory"}),
                   OfType(operations, {"CreateDirectory"}))
    /\ IsPrefixSeq(OfType(completed, {"Delete"}), OfType(operations, {"Delete"}))

\* Two copies ran in the pool, and a Delete is about to start
C6_Witness ==
    /\ pc = "deletes"
    /\ delete_ops # <<>>
    /\ Len(OfType(completed, {"Create", "Update"})) >= 2
    /\ Len(OfType(completed, {"CreateDirectory"})) >= 1

\* The Delete operations of the plan for paths only the destination has
DestOnlyDeletes ==
    SelectSeq(operations, LAMBDA op : /\ op.type = "Delete"
                                      /\ op.path.root = "dst"
                                      /\ ~Exists(scanned["src"], op.path.rel))

DeletesDirectory(op) == KindAt(scanned["dst"], op.path.rel) = "dir"

\* C7 (delete ordering): among the Deletes for destination-only paths every
\* file or symlink Delete precedes every directory Delete and directory
\* Deletes are in order of non-increasing depth; so the Delete loop never
\* reaches a destination-only path that an earlier Delete has removed.
C7_DeleteOrdering ==
    /\ \A i, j \in 1..Len(DestOnlyDeletes) :
          (i < j /\ DeletesDirectory(DestOnlyDeletes[i])) =>
              /\ DeletesDirectory(DestOnlyDeletes[j])
              /\ Len(DestOnlyDeletes[i].path.rel) >= Len(DestOnlyDeletes[j].path.rel)
    /\ (/\ pc = "deletes"
        /\ delete_ops # <<>>
        /\ Head(delete_ops) \in SeqToSet(DestOnlyDeletes))
          => symlink_metadata(fs, Head(delete_ops).path).kind # "none"

EntryKind(info) ==
    IF info.is_symlink THEN "Symlink" ELSE IF info.is_directory THEN "Dir" ELSE "File"

\* The row of the Differ table for source entry S and counterpart T
\* (T = <<>> when the destination list has no entry at that relative path)
TableRow(S, T) ==
    LET s == EntryKind(S)
        t == IF T = <<>> THEN "None" ELSE EntryKind(T[1])
    IN CASE t = "None" /\ s = "Dir"          -> <<"CreateDirectory">>
         [] t = "None" /\ s = "File"         -> <<"Create">>
         [] t = "None" /\ s = "Symlink"      -> <<"CreateSymlink">>
         [] s = "Dir" /\ t = "Dir"           -> <<>>
         [] s = "Dir" /\ t # "Dir"           -> <<"Delete", "CreateDirectory">>
         [] s = "File" /\ t = "Dir"          -> <<"Delete", "Create">>
         [] s = "File" /\ t = "Symlink"      -> <<"Delete", "Create">>
         [] s = "Symlink" /\ t # "Symlink"   -> <<"Delete", "CreateSymlink">>
         [] s = "File" /\ t = "File"         ->
                IF needs_update(S, T[1], options) THEN <<"Update">> ELSE <<>>
         [] s = "Symlink" /\ t = "Symlink"   ->
                IF S.symlink_target # T[1].symlink_target
                THEN <<"UpdateSymlink">> ELSE <<>>

Counterpart(rel) == SelectSeq(dest_files, LAMBDA f : f.path.rel = rel)

Emitted(rel) ==
    LET at == SelectSeq(operations, LAMBDA op : op.path.rel = rel)
    IN [ i \in 1..Len(at) |-> at[i].type ]

\* C8 (Differ table): for every source entry, the operations the plan holds
\* for its relative path are exactly the row of the table for the kinds of
\* the entry and of its counterpart in the destination list, in that order.
C8_DifferTable ==
    \A i \in 1..Len(source_files) :
        Emitted(source_files[i].path.rel)
            = TableRow(source_files[i], Counterpart(source_files[i].path.rel))

\* A plan with a kind-mismatch row (symlink over a file) and a Create row
C8_Witness ==
    /\ pc = "dirs"
    /\ \E i, k \in PlanIndex :
          /\ i < Len(operations)
          /\ operations[i].type = "Delete"
          /\ operations[i + 1].type = "CreateSymlink"
          /\ operations[i + 1].path.rel = operations[i].path.rel
          /\ operations[k].type = "Create"

-----------------------------------------------------------------------------
(* needs_update and should_use_delta on their own *)

\* Everything of the run stays as constructed while a function is applied
Parked ==
    /\ fs = [src |-> EmptyTree, dst |-> EmptyTree, td |-> EmptyTree]
    /\ external = NoExternal
    /\ options = SyncOptions(FALSE, FALSE, FALSE, FALSE)
    /\ pc = "start"
    /\ run = 1
    /\ Idle
    /\ scanned = fs

\* A FileInfo of a regular file
FileEntry(root, size, modified, checksum) ==
    [ path           |-> AbsPath(root, <<"x">>),
      size           |-> size,
      modified       |-> modified,
      is_directory   |-> FALSE,
      is_symlink     |-> FALSE,
      symlink_target |-> NoTarget,
      checksum       |-> checksum ]

\* Contents (size, hash): equal hashes mean equal contents, hence equal sizes
Contents == { <<100, "h1">>, <<100, "h4">>, <<2000, "h2">> }

HashedOrNot(c) == { c[2], NoChecksum }

UpdateEntries(root) ==
    { FileEntry(root, c[1], m, h) : <<c, m, h>> \in
        { t \in Contents \X (0..MaxTime) \X {"h1", "h2", "h4", NoChecksum} :
            t[3] \in HashedOrNot(t[1]) } }

InitUpdate ==
    /\ Parked
    /\ arg \in [ source : UpdateEntries("src"), target : UpdateEntries("dst"),
                 checksum : BOOLEAN ]
    /\ result = <<>>

ApplyNeedsUpdate ==
    /\ result = <<>>
    /\ result' = << needs_update(arg.source, arg.target,
                                 SyncOptions(FALSE, FALSE, arg.checksum, FALSE)) >>
    /\ UNCHANGED <<runVars, arg>>

NextUpdate == ApplyNeedsUpdate

SpecUpdate == InitUpdate /\ [][NextUpdate]_vars

BothHashed == arg.source.checksum # NoChecksum /\ arg.target.checksum # NoChecksum

\* C9 (differs): with checksum mode on and a hash on both entries the files
\* differ iff the hashes are unequal; in every other case they differ iff the
\* source mtime is strictly greater than the destination mtime or the sizes
\* are unequal.
C9_Differs ==
    result # <<>> =>
        result[1] = IF arg.checksum /\ BothHashed
                    THEN arg.source.checksum # arg.target.checksum
                    ELSE \/ arg.source.modified > arg.target.modified
                         \/ arg.source.size # arg.target.size

\* A newer source with the same hash, in checksum mode: no update
C9_Witness ==
    /\ result = <<FALSE>>
    /\ arg.checksum /\ BothHashed
    /\ arg.source.modified > arg.target.modified

\* Sizes around the 1024 threshold and around the pairs at ratio one half
DeltaSizes == (1022..1026) \cup (2046..2050) \cup {0, 512, 3072, 4096}

InitDelta ==
    /\ Parked
    /\ arg \in { [source |-> FileEntry("src", s, 0, NoChecksum),
                  target |-> FileEntry("dst", t, 0, NoChecksum)] :
                 s \in DeltaSizes, t \in DeltaSizes }
    /\ result = <<>>

ApplyShouldUseDelta ==
    /\ result = <<>>
    /\ result' = << should_use_delta(arg.source, arg.target) >>
    /\ UNCHANGED <<runVars, arg>>

NextDelta == ApplyShouldUseDelta

SpecDelta == InitDelta /\ [][NextDelta]_vars

SizeGap == IF arg.source.size >= arg.target.size
           THEN arg.source.size - arg.target.size
           ELSE arg.target.size - arg.source.size

LargerSize == IF arg.source.size >= arg.target.size
              THEN arg.source.size ELSE arg.target.size

\* C10 (use_delta): true iff both sizes are at least 1024 bytes and twice the
\* size difference is less than the larger size.
C10_UseDelta ==
    result # <<>> =>
        result[1] = (/\ arg.source.size >= 1024
                     /\ arg.target.size >= 1024
                     /\ 2 * SizeGap < LargerSize)

\* A size ratio of exactly one half above the threshold: no delta
C10_Witness ==
    /\ result = <<FALSE>>
    /\ arg.source.size = 2048
    /\ arg.target.size = 1024

-----------------------------------------------------------------------------
(* Purge operations of the plan *)

SourceAt(rel) == SelectSeq(source_files, LAMBDA f : f.path.rel = rel)

DeletesNaming(path) ==
    Len(SelectSeq(operations, LAMBDA op : op.type = "Delete" /\ op.path = path))

DeletesAt(rel) ==
    Len(SelectSeq(operations, LAMBDA op : op.type = "Delete" /\ op.path.rel = rel))

\* C11 (purge): with purge or mirror set the plan holds exactly one Delete
\* for every scanned destination entry whose relative path no scanned source
\* entry has, and no Delete for a destination entry whose relative path the
\* source has with the same kind.
C11_PurgeDeletes ==
    Purging =>
        \A i \in 1..Len(dest_files) :
            LET d == dest_files[i]
                here == SourceAt(d.path.rel)
            IN /\ here = <<>> => DeletesNaming(d.path) = 1
               /\ (here # <<>> /\ EntryKind(here[1]) = EntryKind(d))
                     => DeletesAt(d.path.rel) = 0

\* A purge plan over a destination with one entry to keep and one to remove
C11_Witness ==
    /\ Purging
    /\ pc = "dirs"
    /\ \E i, j \in 1..Len(dest_files) :
          /\ SourceAt(dest_files[i].path.rel) = <<>>
          /\ DeletesNaming(dest_files[i].path) = 1
          /\ SourceAt(dest_files[j].path.rel) # <<>>
          /\ EntryKind(SourceAt(dest_files[j].path.rel)[1]) = EntryKind(dest_files[j])

-----------------------------------------------------------------------------
(* retry::with_retry on its own.  arg = the RetryConfig and what each
   invocation of the operation will return; result = the state of the call. *)

RetryConfig(max_retries, wait_seconds) ==
    [max_retries |-> max_retries, wait_seconds |-> wait_seconds]

\* The attempt range that ignores the initial try: 0..max_retries exclusive
attempt_range_exclusive(config) == 0..(config.max_retries - 1)

\* for attempt in 0..=config.max_retries
attempt_range(config) == 0..config.max_retries

\* An error slot that is filled once and then kept
keep_first_error(last_error, e) == IF last_error = 0 THEN e ELSE last_error

\* last_error = Some(e)
set_last_error(last_error, e) == e

\* Outcomes[k]: TRUE when the k-th invocation of the operation returns Ok.
\* Invocation k returns the value k, or the error k.
Outcomes == [1..(MaxRetries + 2) -> BOOLEAN]

InitRetry ==
    /\ Parked
    /\ arg \in [ config : { RetryConfig(m, 0) : m \in 0..MaxRetries },
                 outcomes : Outcomes ]
    /\ result = [ pc |-> "loop", attempt |-> 0, calls |-> 0, last_error |-> 0,
                  ret |-> <<>>, log |-> <<>>, slept |-> 0 ]

\* One iteration of the for loop: invoke the operation and match on what it returns
RetryAttempt ==
    /\ result.pc = "loop"
    /\ IF result.attempt \notin attempt_range(arg.config)
       THEN result' = [result EXCEPT !.pc = "exhausted"]
       ELSE LET k == result.calls + 1
            IN IF arg.outcomes[k]
               THEN result' = [result EXCEPT
                        !.pc = "returned",
                        !.calls = k,
                        !.ret = <<"Ok", k>>,
                        !.log = IF result.attempt > 0
                                THEN Append(@, <<"succeeded after", result.attempt>>)
                                ELSE @]
               ELSE result' = [result EXCEPT
                        !.calls = k,
                        !.last_error = set_last_error(@, k),
                        !.attempt = @ + 1,
                        !.log = IF result.attempt < arg.config.max_retries
                                THEN Append(@, <<"failed", result.attempt + 1>>)
                                ELSE @,
                        !.slept = IF result.attempt < arg.config.max_retries
                                  THEN @ + 1 ELSE @]
    /\ UNCHANGED <<runVars, arg>>

\* All retries exhausted: Err(last_error.unwrap()).with_context(..)
RetryExhausted ==
    /\ result.pc = "exhausted"
    /\ result' = [result EXCEPT
           !.pc = "returned",
           !.ret = IF result.last_error = 0
                   THEN <<"panic">>
                   ELSE <<"Err", result.last_error, arg.config.max_retries>>]
    /\ UNCHANGED <<runVars, arg>>

NextRetry == RetryAttempt \/ RetryExhausted

SpecRetry == InitRetry /\ [][NextRetry]_vars

Budget == arg.config.max_retries + 1

\* The invocations, within the budget, at which the operation would succeed
Successes == { k \in 1..Budget : arg.outcomes[k] }

FirstSuccess == CHOOSE k \in Successes : \A j \in Successes : k <= j

\* C12: the operation is invoked at most max_retries + 1 times; as soon as an
\* invocation succeeds with_retry returns that invocation's value and the
\* operation is not invoked again.
C12_RetrySuccess ==
    /\ result.calls <= Budget
    /\ (result.pc = "returned" /\ Successes # {})
          => /\ result.ret = <<"Ok", FirstSuccess>>
             /\ result.calls = FirstSuccess
    /\ \A k \in 1..result.calls : arg.outcomes[k] => (k = result.calls /\ result.pc = "returned")

\* Two failures, then a success, with max_retries = 3: Ok after 3 invocations
C12_Witness ==
    /\ arg.config.max_retries = 3
    /\ ~arg.outcomes[1] /\ ~arg.outcomes[2] /\ arg.outcomes[3]
    /\ result.pc = "returned"
    /\ result.ret = <<"Ok", 3>>
    /\ result.calls = 3

\* C13: when every invocation fails, with_retry ends after exactly
\* max_retries + 1 invocations with the error of the last invocation,
\* annotated with the retry count; until then it can always take a step.
C13_RetryExhausted ==
    Successes = {} =>
        /\ result.pc = "returned"
              => /\ result.calls = Budget
                 /\ result.ret = <<"Err", Budget, arg.config.max_retries>>
        /\ result.pc # "returned" => (result.calls <= Budget /\ ENABLED NextRetry)

\* Three failures with max_retries = 2
C13_Witness ==
    /\ arg.config.max_retries = 2
    /\ Successes = {}
    /\ result.pc = "returned"
    /\ result.calls = 3
    /\ result.ret = <<"Err", 3, 2>>

-----------------------------------------------------------------------------
(* One file copy of a plan whose source read fails transiently.  arg.route is
   the code that performs the copy: the small-file closure and
   execute_operation_parallel (the two the directory executor uses for
   Create and Update) or execute_operation, which goes through
   copy_file_with_retry_internal. *)

Routes == {"small", "large", "execute_operation"}

\* RetryConfig::should_retry
should_retry(config) == config.max_retries > 0

InitCopy ==
    /\ Parked
    /\ arg \in [ route : Routes,
                 config : { RetryConfig(m, 0) : m \in 0..MaxRetries },
                 outcomes : Outcomes,
                 auditing : BOOLEAN ]
    /\ result = [ pc |-> "call", attempt |-> 0, calls |-> 0, last_error |-> 0,
                  ret |-> <<>>, log |-> <<>>, slept |-> 0, warnings |-> <<>> ]

\* Which code copies: only copy_file_with_retry_internal consults the RetryConfig
CopyDispatch ==
    /\ result.pc = "call"
    /\ result' = [result EXCEPT !.pc =
           IF arg.route = "execute_operation" /\ should_retry(arg.config)
           THEN "loop" ELSE "direct"]
    /\ UNCHANGED <<runVars, arg>>

\* A single fs::copy (or copy_file_with_metadata) whose error is propagated by `?`
CopyOnce ==
    /\ result.pc = "direct"
    /\ result' = [result EXCEPT
           !.pc = "returned",
           !.calls = 1,
           !.ret = IF arg.outcomes[1] THEN <<"Ok", 1>> ELSE <<"Err", 1, 0>>]
    /\ UNCHANGED <<runVars, arg>>

\* copy_file_with_metadata_with_warnings pushes the auditing notice when the
\* U flag is set and the copy went through; nothing else reaches the sink
CopyWarnings ==
    /\ result.pc = "returned"
    /\ arg.route = "execute_operation"
    /\ arg.auditing
    /\ result.ret # <<>> /\ result.ret[1] = "Ok"
    /\ result.warnings = <<>>
    /\ result' = [result EXCEPT !.warnings = <<"auditing">>]
    /\ UNCHANGED <<runVars, arg>>

NextCopy == CopyDispatch \/ CopyOnce \/ RetryAttempt \/ RetryExhausted \/ CopyWarnings

SpecCopy == InitCopy /\ [][NextCopy]_vars

\* C14: with retry_count > 0 a Create or Update of the directory executor,
\* small or large, re-attempts a failed copy until it succeeds or
\* retry_count + 1 attempts have failed.
C14_CopiesRetried ==
    (/\ arg.route \in {"small", "large"}
     /\ arg.config.max_retries > 0
     /\ result.pc = "returned")
        => IF Successes # {}
           THEN result.ret = <<"Ok", FirstSuccess>> /\ result.calls = FirstSuccess
           ELSE result.calls = Budget /\ result.ret[1] = "Err"

RetryWarnings == SelectSeq(result.warnings, LAMBDA w : w = "retries")

\* C15: a copy that fails twice and then succeeds under retry_count = 3 and
\* retry_wait = 0 completes, and the warning sink then holds exactly one
\* warning that records the retries.
C15_RetryWarning ==
    (/\ arg.config = RetryConfig(3, 0)
     /\ ~arg.outcomes[1] /\ ~arg.outcomes[2] /\ arg.outcomes[3]
     /\ result.pc = "returned")
        => /\ result.ret = <<"Ok", 3>>
           /\ Len(RetryWarnings) = 1

-----------------------------------------------------------------------------
(* Failures, move mode, symlink operations and parent directories in a run *)

\* C16 (failure isolation): the failure of an operation other than a
\* CreateDirectory of the first phase does not abort the run: the run only
\* ends in error while CreateDirectory operations are still outstanding.
C16_FailureIsolation ==
    pc = "error" => dir_ops # <<>>

Copies == { op \in Done : op.type \in {"Create", "Update"} }

\* C17 (move mode): with move_files set, after a successful run no source
\* file that a Create or Update copied is left in the source; and a source
\* file is gone only if its own copy has succeeded.
C17_MoveMode ==
    (options.move_files /\ pc # "start") =>
        /\ pc = "done" =>
              \A op \in Copies :
                  scanned["src"][op.path.rel].kind = "file"
                      => ~Exists(fs["src"], op.path.rel)
        /\ \A rel \in Rels :
              (scanned["src"][rel].kind = "file" /\ ~Exists(fs["src"], rel))
                  => \E op \in Copies : op.path.rel = rel

\* C18 (symlink operations): after a successful run the destination path of
\* every CreateSymlink and UpdateSymlink of the plan is a symlink with the
\* recorded target.
C18_SymlinksExecuted ==
    pc = "done" =>
        \A op \in AllOps :
            op.type \in {"CreateSymlink", "UpdateSymlink"} =>
                LET there == symlink_metadata(fs, AbsPath("dst", op.path.rel))
                IN there.kind = "symlink" /\ there.target = op.target

\* Nothing is left for create_dir_all to do on the parent of the destination
ParentReady(op) ==
    LET d == map_source_to_dest(op.path, "src", "dst")
        made == create_dir_all(World(fs, external), ParentPath(d.path))
    IN d.ok /\ made.ok /\ made.fs = fs

\* C19 (parent directories): while a pool thread runs a Create or Update,
\* small or large, the parent directory of its destination has already been
\* created, and the thread issues no directory creation of its own (so no two
\* threads ever create the same directory).
C19_ParentsPrecreated ==
    \A op \in inflight :
        /\ op.type \in {"Create", "Update"} => ParentReady(op)
        /\ worker_create_dir_calls(pc, op, "src", "dst") = {}

-----------------------------------------------------------------------------
(* The worker thread count: main's validation and the pool sync_directories
   builds.  arg = what `ulimit -n` printed, the requested --mt N and the
   destination argument. *)

clamp(v, lo, hi) == IF v < lo THEN lo ELSE IF v > hi THEN hi ELSE v

\* get_max_thread_count on Linux; `limit` is <<n>> when the output of
\* `ulimit -n` parses as a number and <<>> otherwise ("unlimited")
get_max_thread_count(limit) ==
    IF limit # <<>> THEN clamp(limit[1] \div 4, 64, 512) ELSE 256

\* destination.to_str() starts with two backslashes or contains a colon
Destinations == {"/mnt/dst", "host:dst", "\\\\srv\\share", "./a:b"}

looks_like_network(destination) ==
    destination \in {"host:dst", "\\\\srv\\share", "./a:b"}

effective_threads(worker_threads, destination) ==
    IF looks_like_network(destination) THEN worker_threads * 2 ELSE worker_threads

FdLimits == { <<>>, <<0>>, <<255>>, <<256>>, <<260>>, <<1024>>, <<2047>>, <<2048>>, <<4096>> }

Requested == {1, 63, 64, 65, 128, 256, 257, 511, 512, 513}

InitThreads ==
    /\ Parked
    /\ arg \in [ limit : FdLimits, threads : Requested, destination : Destinations ]
    /\ result = [ pc |-> "main", scanning |-> FALSE, pool |-> 0 ]

\* main: threads > max_threads ends the process with exit code 1
ValidateThreads ==
    /\ result.pc = "main"
    /\ result' = [result EXCEPT !.pc =
           IF arg.threads > get_max_thread_count(arg.limit) THEN "exit(1)" ELSE "sync"]
    /\ UNCHANGED <<runVars, arg>>

\* sync_directories: scan, plan, then build the rayon pool
BuildPool ==
    /\ result.pc = "sync"
    /\ result' = [result EXCEPT !.pc = "pool", !.scanning = TRUE,
                                !.pool = effective_threads(arg.threads, arg.destination)]
    /\ UNCHANGED <<runVars, arg>>

NextThreads == ValidateThreads \/ BuildPool

SpecThreads == InitThreads /\ [][NextThreads]_vars

\* The ceiling the spec states for Linux
Ceiling == IF arg.limit = <<>> THEN 256
           ELSE IF arg.limit[1] \div 4 < 64 THEN 64
           ELSE IF arg.limit[1] \div 4 > 512 THEN 512
           ELSE arg.limit[1] \div 4

\* C20 (thread cap): a request above the ceiling is rejected before anything
\* is scanned, and the pool built for an accepted request never has more
\* threads than the ceiling, whatever the destination path.
C20_ThreadCap ==
    /\ (arg.threads > Ceiling /\ result.pc # "main")
          => (result.pc = "exit(1)" /\ ~result.scanning)
    /\ result.pool <= Ceiling

-----------------------------------------------------------------------------
(* file_list::matches_pattern on its own.  A text or pattern is a sequence of
   characters; a Rust &str is indexed by byte, so each character has its
   UTF-8 length. *)

TextChars == {"a", "b", "é"}

PatternChars == TextChars \cup {"*", "?"}

\* char::len_utf8
len_utf8(c) == IF c = "é" THEN 2 ELSE 1

\* str::len of the first k characters of a text
RECURSIVE byte_offset(_, _)
byte_offset(text, k) ==
    IF k = 0 THEN 0 ELSE byte_offset(text, k - 1) + len_utf8(text[k])

\* &remaining_text[i..]: the suffix from byte i, or a panic when byte i is
\* not a character boundary
str_from(text, i) ==
    LET cuts == { k \in 0..Len(text) : byte_offset(text, k) = i }
    IN IF cuts = {} THEN <<"panic">>
       ELSE <<"ok", SubSeq(text, (CHOOSE k \in cuts : TRUE) + 1, Len(text))>>

\* Simple pattern matching with wildcards (* and ?): "true", "false" or "panic"
RECURSIVE matches_pattern(_, _)
RECURSIVE star_positions(_, _, _)
matches_pattern(text, pattern) ==
    IF pattern = <<>> THEN (IF text = <<>> THEN "true" ELSE "false")
    ELSE IF Head(pattern) = "*"
    THEN IF Tail(pattern) = <<>> THEN "true"
         ELSE star_positions(text, Tail(pattern), 0)
    ELSE IF text = <<>> THEN "false"
    ELSE IF Head(pattern) = "?" \/ Head(pattern) = Head(text)
    THEN matches_pattern(Tail(text), Tail(pattern))
    ELSE "false"

\* for i in 0..=remaining_text.len() { if matches_pattern(&remaining_text[i..], ..) }
star_positions(remaining_text, remaining_pattern, i) ==
    IF i > byte_offset(remaining_text, Len(remaining_text)) THEN "false"
    ELSE LET rest == str_from(remaining_text, i)
         IN IF rest[1] = "panic" THEN "panic"
            ELSE LET hit == matches_pattern(rest[2], remaining_pattern)
                 IN IF hit = "false"
                    THEN star_positions(remaining_text, remaining_pattern, i + 1)
                    ELSE hit

SeqsUpTo(S, n) == UNION { [1..k -> S] : k \in 0..n }

InitGlob ==
    /\ Parked
    /\ arg \in [ text : SeqsUpTo(TextChars, MaxText),
                 pattern : SeqsUpTo(PatternChars, MaxPattern) ]
    /\ result = <<>>

ApplyMatchesPattern ==
    /\ result = <<>>
    /\ result' = << matches_pattern(arg.text, arg.pattern) >>
    /\ UNCHANGED <<runVars, arg>>

NextGlob == ApplyMatchesPattern

SpecGlob == InitGlob /\ [][NextGlob]_vars

\* The whole text matches the pattern: `*` stands for any run of characters,
\* `?` for exactly one, any other character for itself
RECURSIVE GlobMatches(_, _)
GlobMatches(text, pattern) ==
    IF pattern = <<>> THEN text = <<>>
    ELSE IF Head(pattern) = "*"
    THEN \E k \in 0..Len(text) :
            GlobMatches(SubSeq(text, k + 1, Len(text)), Tail(pattern))
    ELSE /\ text # <<>>
         /\ Head(pattern) = "?" \/ Head(pattern) = Head(text)
         /\ GlobMatches(Tail(text), Tail(pattern))

\* C21 (glob matching): matches_pattern(text, pattern) returns true iff the
\* whole text matches the pattern, and false otherwise.
C21_GlobMatching ==
    result # <<>> =>
        result[1] = IF GlobMatches(arg.text, arg.pattern) THEN "true" ELSE "false"

-----------------------------------------------------------------------------
(* Filter: should_include_file (file_list.rs 251-318) *)

\* The characters of a file name and of a root's own basename
NameText(name) == <<name>>
RootText(root) == IF root = "src" THEN <<"s">> ELSE <<"d">>

\* Path::to_string_lossy of a relative path: the names joined by "/"
RECURSIVE RelText(_)
RelText(rel) ==
    IF rel = <<>> THEN <<>>
    ELSE IF Len(rel) = 1 THEN NameText(rel[1])
    ELSE RelText(Parent(rel)) \o <<"/">> \o NameText(rel[Len(rel)])

\* exclude_files and exclude_dirs hold patterns; min_size and max_size are
\* Option<u64>, <<>> for None
FilterOptions(exclude_files, exclude_dirs, min_size, max_size) ==
    [exclude_files |-> exclude_files, exclude_dirs |-> exclude_dirs,
     min_size |-> min_size, max_size |-> max_size]

NoFilter == FilterOptions({}, {}, <<>>, <<>>)

\* should_include_file with the ancestor loop over proper ancestors only
should_include_file_proper_ancestors(info, root, opts) ==
    LET relative_path == info.path.rel
        file_name == IF relative_path = <<>> THEN RootText(root)
                     ELSE NameText(relative_path[Len(relative_path)])
        hit(text, patterns) ==
            \E pattern \in patterns : matches_pattern(text, pattern) = "true"
        own == {file_name, RelText(relative_path)}
        above == UNION { { NameText(relative_path[k]), RelText(SubSeq(relative_path, 1, k)) } :
                           k \in 1..(Len(relative_path) - 1) }
    IN  \/ info.path.root # root
        \/ /\ \A text \in own : ~hit(text, opts.exclude_files)
           /\ info.is_directory => \A text \in own : ~hit(text, opts.exclude_dirs)
           /\ \A text \in above : ~hit(text, opts.exclude_dirs)
           /\ info.is_directory
              \/ /\ opts.min_size = <<>> \/ info.size >= opts.min_size[1]
                 /\ opts.max_size = <<>> \/ info.size <= opts.max_size[1]

should_include_file(info, root, opts) ==
    IF info.path.root # root THEN TRUE
    ELSE
    LET relative_path == info.path.rel
        file_name == IF relative_path = <<>> THEN RootText(root)
                     ELSE NameText(relative_path[Len(relative_path)])
        hit(text, patterns) ==
            \E pattern \in patterns : matches_pattern(text, pattern) = "true"
        \* Path::ancestors yields the path itself first, then every parent;
        \* the empty path has no file_name
        ancestors == { SubSeq(relative_path, 1, k) : k \in 1..Len(relative_path) }
    IN  IF hit(file_name, opts.exclude_files)
           \/ hit(RelText(relative_path), opts.exclude_files)
        THEN FALSE
        ELSE IF /\ info.is_directory
                /\ \/ hit(file_name, opts.exclude_dirs)
                   \/ hit(RelText(relative_path), opts.exclude_dirs)
        THEN FALSE
        ELSE IF \E ancestor \in ancestors :
                   \/ hit(NameText(ancestor[Len(ancestor)]), opts.exclude_dirs)
                   \/ hit(RelText(ancestor), opts.exclude_dirs)
        THEN FALSE
        ELSE IF /\ ~info.is_directory
                /\ \/ opts.min_size # <<>> /\ info.size < opts.min_size[1]
                   \/ opts.max_size # <<>> /\ info.size > opts.max_size[1]
        THEN FALSE
        ELSE TRUE

\* The scan with the filter applied to every entry the walk yields
\* (file_list.rs 130: an entry is pushed only if should_include_file)
filtered_file_list(tree, root, opts) ==
    SelectSeq(generate_file_list(tree, root, opts),
              LAMBDA f : should_include_file(f, root, opts))

\* The patterns and size bounds the filter is exercised with
FilterPatterns == { <<"x">>, <<"y">>, <<"*">>, <<"?">>, <<"x", "/", "*">>, <<"*", "y">> }
PatternSets == {{}} \cup { {p} : p \in FilterPatterns }
EntrySizes == {0, 2, 100, 2000}
SizeBounds == { <<>>, <<1>>, <<100>>, <<101>> }

FilterEntry(rel, kind, size) ==
    [ path           |-> AbsPath("src", rel),
      size           |-> size,
      modified       |-> 1,
      is_directory   |-> kind = "dir",
      is_symlink     |-> kind = "symlink",
      symlink_target |-> IF kind = "symlink" THEN "t1" ELSE NoTarget,
      checksum       |-> NoChecksum ]

InitFilter ==
    /\ Parked
    /\ arg \in [ entry : { FilterEntry(rel, kind, size) :
                             rel \in Rels, kind \in {"file", "dir", "symlink"},
                                 size \in EntrySizes }
                             \cup { FilterEntry(RootRel, "dir", 0) },
                 options : { FilterOptions(xf, xd, lo, hi) :
                               xf \in PatternSets, xd \in PatternSets,
                               lo \in SizeBounds, hi \in SizeBounds } ]
    /\ result = <<>>

ApplyShouldIncludeFile ==
    /\ result = <<>>
    /\ result' = << should_include_file(arg.entry, "src", arg.options) >>
    /\ UNCHANGED <<runVars, arg>>

NextFilter == ApplyShouldIncludeFile

SpecFilter == InitFilter /\ [][NextFilter]_vars

IsRegularFile(info) == ~info.is_directory /\ ~info.is_symlink

OutOfBounds(info, opts) ==
    \/ opts.min_size # <<>> /\ info.size < opts.min_size[1]
    \/ opts.max_size # <<>> /\ info.size > opts.max_size[1]

\* C22 (size bounds): min_size and max_size apply to regular files only.  A
\* directory or a symlink is included exactly when it is included with both
\* bounds unset; a regular file that the patterns let through is excluded iff
\* its size is below min_size or above max_size.
C22_SizeBounds ==
    result # <<>> =>
        LET unbounded == should_include_file(arg.entry, "src",
                             [arg.options EXCEPT !.min_size = <<>>, !.max_size = <<>>])
        IN result[1] = (/\ unbounded
                        /\ IsRegularFile(arg.entry)
                             => ~OutOfBounds(arg.entry, arg.options))

\* An entry matches an exclude_dirs pattern by its basename or relative path
MatchesDirPattern(rel, opts) ==
    LET name == IF rel = <<>> THEN RootText("src") ELSE NameText(rel[Len(rel)])
    IN \E pattern \in opts.exclude_dirs :
          \/ matches_pattern(name, pattern) = "true"
          \/ matches_pattern(RelText(rel), pattern) = "true"

\* C29 (directory exclusion): with no other filter set, an entry is excluded
\* iff it is a directory that matches an exclude_dirs pattern or one of its
\* proper ancestor directories matches one; a regular file or a symlink whose
\* own name matches stays included.
C29_ExcludeDirs ==
    (result # <<>> /\ arg.options.exclude_files = {}
       /\ arg.options.min_size = <<>> /\ arg.options.max_size = <<>>) =>
        LET rel == arg.entry.path.rel
        IN result[1] = ~(\/ arg.entry.is_directory /\ MatchesDirPattern(rel, arg.options)
                         \/ \E k \in 1..(Len(rel) - 1) :
                               MatchesDirPattern(SubSeq(rel, 1, k), arg.options))

-----------------------------------------------------------------------------
(* The plan under a filter: both scans of sync_directories apply the same   *)
(* options (parallel_sync.rs 200-263), then the plan is built from the two   *)
(* filtered lists (parallel_sync.rs 283-359).                                *)

filtered_plan(source, dest, opts) ==
    build_plan(filtered_file_list(source, "src", opts),
               retain_not_root(filtered_file_list(dest, "dst", opts), "dst"),
               opts)

\* One more pattern pushed onto exclude_files or exclude_dirs
with_pattern(opts, list, pattern) ==
    IF list = "exclude_files"
    THEN [opts EXCEPT !.exclude_files = @ \cup {pattern}]
    ELSE [opts EXCEPT !.exclude_dirs = @ \cup {pattern}]

\* Trees of one file content, one mtime and one symlink target
PlainNodes == {DirNode, FileNode("d1", 1), SymlinkNode("t1")}
PlainPairs ==
    LET plain == { t \in TreesUpTo(MaxEntries) : \A r \in Present(t) : t[r] \in PlainNodes }
    IN { p \in plain \X plain :
           Cardinality(Present(p[1])) + Cardinality(Present(p[2])) <= MaxEntries }

PlanPatterns == { <<"x">>, <<"y">>, <<"s">>, <<"*">>, <<"x", "/", "*">> }
PlanFilters ==
    {NoFilter} \cup { FilterOptions({p}, {}, <<>>, <<>>) : p \in PlanPatterns }
               \cup { FilterOptions({}, {p}, <<>>, <<>>) : p \in PlanPatterns }
               \cup { FilterOptions({}, {}, <<50>>, <<>>) }

InitPlanFilter ==
    /\ Parked
    /\ arg \in [ trees : PlainPairs,
                 options : { SyncOptions(purge, FALSE, FALSE, FALSE) @@ f :
                               purge \in BOOLEAN, f \in PlanFilters },
                 list : {"exclude_files", "exclude_dirs"},
                 pattern : PlanPatterns ]
    /\ result = <<>>

ComparePlans ==
    /\ result = <<>>
    /\ result' = << [ without |-> SeqToSet(filtered_plan(arg.trees[1], arg.trees[2],
                                                        arg.options)),
                      with    |-> SeqToSet(filtered_plan(arg.trees[1], arg.trees[2],
                                      with_pattern(arg.options, arg.list, arg.pattern))) ] >>
    /\ UNCHANGED <<runVars, arg>>

NextPlanFilter == ComparePlans

SpecPlanFilter == InitPlanFilter /\ [][NextPlanFilter]_vars

\* C23 (filter monotonicity): the plan computed with one more exclude pattern
\* holds no operation that the plan without that pattern does not hold.
C23_FilterMonotone ==
    result # <<>> => result[1].with \subseteq result[1].without

\* An added pattern that removes some, but not all, operations of the plan
C23_Witness ==
    /\ result # <<>>
    /\ result[1].with # {}
    /\ result[1].with # result[1].without
    /\ result[1].with \subseteq result[1].without

-----------------------------------------------------------------------------
(* Delta application: apply_delta (sync.rs 163-190) and                     *)
(* ParallelSyncer::apply_delta (parallel_sync.rs 1587-1629)                  *)

\* usize and u64 are modelled this many bits wide
UsizeBits == 16
UsizeMax == 2^UsizeBits - 1

Bytes == {"a", "b"}

\* Match::Literal and Match::Block, with the fields the appliers read
Literal(data, is_compressed) ==
    [kind |-> "Literal", data |-> data, is_compressed |-> is_compressed]
Block(target_offset, length) ==
    [kind |-> "Block", target_offset |-> target_offset, length |-> length]

\* let end = start + length; if end <= dest_data.len() { &dest_data[start..end] }
\* With overflow checks (debug profile) the addition panics when it
\* overflows; without them it wraps, and a slice whose start exceeds its
\* end panics.
block_slice(dest_data, m, overflow_checks) ==
    LET start == m.target_offset
        sum == start + m.length
        end == sum % (UsizeMax + 1)
    IN IF overflow_checks /\ sum > UsizeMax THEN <<"panic">>
       ELSE IF end <= Len(dest_data)
       THEN IF start > end THEN <<"panic">>
            ELSE <<"Ok", SubSeq(dest_data, start + 1, end)>>
       ELSE <<"Err">>

\* sync.rs: a literal's data is appended as it is
RECURSIVE apply_delta(_, _, _)
apply_delta(dest_data, matches, overflow_checks) ==
    IF matches = <<>> THEN <<"Ok", <<>>>>
    ELSE LET last == matches[Len(matches)]
             before == apply_delta(dest_data, SubSeq(matches, 1, Len(matches) - 1),
                                   overflow_checks)
             piece == IF last.kind = "Literal" THEN <<"Ok", last.data>>
                      ELSE block_slice(dest_data, last, overflow_checks)
         IN IF before[1] # "Ok" THEN before
            ELSE IF piece[1] # "Ok" THEN piece
            ELSE <<"Ok", before[2] \o piece[2]>>

\* The instruction streams and destination contents apply_delta is given
MaxMatches == 2
MaxData == 2
Offsets == {0, 1, 2, 3, UsizeMax - 1, UsizeMax}
MatchSet ==
    { Literal(d, FALSE) : d \in SeqsUpTo(Bytes, MaxData) }
    \cup { Block(o, l) : o \in Offsets, l \in Offsets }

InitApply ==
    /\ Parked
    /\ arg \in [ dest_data : SeqsUpTo(Bytes, MaxData + 1),
                 matches : SeqsUpTo(MatchSet, MaxMatches),
                 overflow_checks : BOOLEAN ]
    /\ result = <<>>

\* let new_data = apply_delta(&dest_data, &matches)?;
\* fs::write(destination, &new_data)
\* The record holds what apply_delta returned and the destination file's
\* content afterwards.
ApplyAndWrite ==
    /\ result = <<>>
    /\ LET new_data == apply_delta(arg.dest_data, arg.matches, arg.overflow_checks)
       IN result' = << [ returned |-> new_data,
                         destination |-> IF new_data[1] = "Ok" THEN new_data[2]
                                         ELSE arg.dest_data ] >>
    /\ UNCHANGED <<runVars, arg>>

NextApply == ApplyAndWrite

SpecApply == InitApply /\ [][NextApply]_vars

\* The block reference lies inside the destination data
InRange(m, dest_data) ==
    m.kind = "Block" => m.target_offset + m.length <= Len(dest_data)

RECURSIVE Concatenation(_, _)
Concatenation(dest_data, matches) ==
    IF matches = <<>> THEN <<>>
    ELSE LET m == Head(matches)
         IN (IF m.kind = "Literal" THEN m.data
             ELSE SubSeq(dest_data, m.target_offset + 1, m.target_offset + m.length))
            \o Concatenation(dest_data, Tail(matches))

\* C27 (apply_delta): with every block reference inside D the result is the
\* concatenation, in instruction order, of the literals' bytes and the
\* referenced slices of D; with a block reference whose target_offset + length
\* exceeds the length of D the result is an error and the destination file
\* keeps its old content.
C27_ApplyDelta ==
    result # <<>> =>
        IF \A i \in 1..Len(arg.matches) : InRange(arg.matches[i], arg.dest_data)
        THEN result[1].returned = <<"Ok", Concatenation(arg.dest_data, arg.matches)>>
        ELSE /\ result[1].returned = <<"Err">>
             /\ result[1].destination = arg.dest_data

-----------------------------------------------------------------------------
(* Codec: compression.rs *)

MIN_LITERAL_TO_COMPRESS == 64

Rep(b, n) == [ j \in 1..n |-> b ]

\* The zstd and lz4 libraries, as one run-length codec under two frame
\* tags: a frame is its tag followed by (count, byte) for every run
Runs(data) ==
    LET starts == { j \in 1..Len(data) : j = 1 \/ data[j] # data[j - 1] }
        start(r) == CHOOSE j \in starts : Cardinality({ t \in starts : t < j }) = r - 1
        length(r) == (IF r = Cardinality(starts) THEN Len(data) + 1 ELSE start(r + 1))
                     - start(r)
    IN [ t \in 1..(2 * Cardinality(starts)) |->
           IF t % 2 = 1 THEN ToString(length((t + 1) \div 2))
           ELSE data[start(t \div 2)] ]

RECURSIVE Unruns(_)
Unruns(frame) ==
    IF frame = <<>> THEN <<>>
    ELSE Rep(frame[2], CHOOSE n \in 1..UsizeMax : ToString(n) = frame[1])
         \o Unruns(SubSeq(frame, 3, Len(frame)))

compress_data(data, algorithm) ==
    IF algorithm = "None" THEN data ELSE <<algorithm>> \o Runs(data)

\* A frame of another codec, or data that is no frame, fails to decompress
decompress_data(data, algorithm) ==
    IF algorithm = "None" THEN <<"Ok", data>>
    ELSE IF data # <<>> /\ data[1] = algorithm THEN <<"Ok", Unruns(Tail(data))>>
    ELSE <<"Err">>

compress_literal_data(literal_data, algorithm) ==
    IF Len(literal_data) < MIN_LITERAL_TO_COMPRESS THEN literal_data
    ELSE LET compressed == compress_data(literal_data, algorithm)
         IN IF Len(compressed) < Len(literal_data) THEN compressed ELSE literal_data

-----------------------------------------------------------------------------
(* Delta: the matcher of algorithm.rs as the specification describes it,    *)
(* and its callers in ParallelSyncer::sync_file_pair                         *)

\* A weak additive checksum and a strong hash without collisions
Weak(block) == <<Len(block), Cardinality({ j \in 1..Len(block) : block[j] = "a" })>>
Strong(block) == block

\* DeltaAlgorithm::generate_checksums: one BlockChecksum for each block of
\* block_size bytes, the last one possibly shorter
generate_checksums(data, block_size) ==
    LET count == (Len(data) + block_size - 1) \div block_size
        block(k) == SubSeq(data, (k - 1) * block_size + 1,
                           IF k * block_size < Len(data) THEN k * block_size ELSE Len(data))
    IN [ k \in 1..count |-> [ offset |-> (k - 1) * block_size,
                              weak   |-> Weak(block(k)),
                              strong |-> Strong(block(k)) ] ]

\* data.chunks(block_size).enumerate(), generate_checksums on every chunk,
\* checksum.offset = index * block_size, flattened
parallel_generate_checksums(data, block_size) ==
    LET chunks == generate_checksums(data, block_size)
        per == [ k \in 1..Len(chunks) |->
                   LET block_checksums == generate_checksums(chunks[k].strong, block_size)
                   IN [ j \in 1..Len(block_checksums) |->
                          [block_checksums[j] EXCEPT !.offset = (k - 1) * block_size] ] ]
    IN Flatten(per)

\* DeltaAlgorithm::find_matches: the source scan of the specification, from
\* lit_start on: the window rolls forward to the first position where it
\* matches a block, the scan resumes behind the matched window.  A pending
\* literal is flushed before every block reference and at the end;
\* with a codec its data is compress_literal_data's output and the flag
\* tells whether that is shorter.
RECURSIVE find_matches(_, _, _, _, _)
find_matches(source_data, checksums, block_size, algorithm, lit_start) ==
    LET literal(pending) ==
            LET data == compress_literal_data(pending, algorithm)
            IN IF pending = <<>> THEN <<>>
               ELSE << Literal(data, Len(data) < Len(pending)) >>
        window(i) == SubSeq(source_data, i + 1, i + block_size)
        candidates(i) == { k \in 1..Len(checksums) :
                             /\ checksums[k].weak = Weak(window(i))
                             /\ checksums[k].strong = Strong(window(i)) }
        \* the hashmap from weak checksum to (offset, strong), by its keys
        index == { <<checksums[k].weak, checksums[k].strong>> : k \in 1..Len(checksums) }
        \* the positions from lit_start on at which a whole window matches
        hits == { i \in lit_start..(Len(source_data) - block_size) :
                    <<Weak(window(i)), Strong(window(i))>> \in index }
    IN IF hits = {}
       THEN literal(SubSeq(source_data, lit_start + 1, Len(source_data)))
       ELSE LET i == CHOOSE h \in hits : \A o \in hits : h <= o
                k == CHOOSE c \in candidates(i) : \A o \in candidates(i) : c <= o
            IN literal(SubSeq(source_data, lit_start + 1, i))
               \o << Block(checksums[k].offset, block_size) >>
               \o find_matches(source_data, checksums, block_size, algorithm,
                               i + block_size)

\* apply_delta that appends every literal's data as it is
apply_delta_raw_literals(dest_data, matches, compression_type, overflow_checks) ==
    apply_delta(dest_data, matches, overflow_checks)

\* parallel_sync.rs: a compressed literal is decompressed before it is appended
RECURSIVE ParallelSyncer_apply_delta(_, _, _, _)
ParallelSyncer_apply_delta(dest_data, matches, compression_type, overflow_checks) ==
    IF matches = <<>> THEN <<"Ok", <<>>>>
    ELSE LET last == matches[Len(matches)]
             before == ParallelSyncer_apply_delta(dest_data,
                           SubSeq(matches, 1, Len(matches) - 1),
                           compression_type, overflow_checks)
             piece == IF last.kind = "Block"
                      THEN block_slice(dest_data, last, overflow_checks)
                      ELSE IF last.is_compressed
                      THEN decompress_data(last.data, compression_type)
                      ELSE <<"Ok", last.data>>
         IN IF before[1] # "Ok" THEN before
            ELSE IF piece[1] # "Ok" THEN piece
            ELSE <<"Ok", before[2] \o piece[2]>>

\* File contents are built from these pieces: single bytes, a run long
\* enough to be compressed and an alternation that no run-length frame shortens
Alt(n) == [ j \in 1..n |-> IF j % 2 = 1 THEN "a" ELSE "b" ]

MaxPieces == 2
Pieces == { <<"a">>, Rep("a", MIN_LITERAL_TO_COMPRESS), Alt(MIN_LITERAL_TO_COMPRESS) }
FileContents == { Flatten(q) : q \in SeqsUpTo(Pieces, MaxPieces) }

\* Short contents go with small blocks, long contents with large ones
InitReconstruct ==
    /\ Parked
    /\ arg \in [ dest_data : SeqsUpTo(Bytes, MaxData + 1),
                 source_data : SeqsUpTo(Bytes, MaxData + 1),
                 block_size : {1, 2},
                 compress : BOOLEAN,
                 algorithm : {"Zstd"},
                 overflow_checks : BOOLEAN ]
          \cup [ dest_data : FileContents,
                 source_data : FileContents,
                 block_size : {32, MIN_LITERAL_TO_COMPRESS},
                 compress : {TRUE},
                 algorithm : {"None", "Zstd", "Lz4"},
                 overflow_checks : {FALSE} ]
    /\ result = <<>>

\* The tail of sync_file_pair (parallel_sync.rs 1459-1489): checksums of the
\* destination data, matches of the source data, apply_delta, write
SyncFilePair ==
    /\ result = <<>>
    /\ LET algorithm == IF arg.compress THEN arg.algorithm ELSE "None"
           checksums == parallel_generate_checksums(arg.dest_data, arg.block_size)
           matches == find_matches(arg.source_data, checksums, arg.block_size,
                                   algorithm, 0)
           new_data == ParallelSyncer_apply_delta(arg.dest_data, matches, algorithm,
                                                  arg.overflow_checks)
       IN result' = << [ matches |-> matches,
                         returned |-> new_data,
                         destination |-> IF new_data[1] = "Ok" THEN new_data[2]
                                         ELSE arg.dest_data ] >>
    /\ UNCHANGED <<runVars, arg>>

NextReconstruct == SyncFilePair

SpecReconstruct == InitReconstruct /\ [][NextReconstruct]_vars

\* C24 (delta reconstruction): applying to D the instructions computed from
\* the block checksums of D and the source S yields exactly S, and S is what
\* the destination file holds afterwards, with or without compressed literals.
C24_Reconstruction ==
    result # <<>> =>
        /\ result[1].returned = <<"Ok", arg.source_data>>
        /\ result[1].destination = arg.source_data

\* A stream with a block reference and a compressed literal
C24_Witness ==
    /\ result # <<>>
    /\ \E i \in 1..Len(result[1].matches) : result[1].matches[i].kind = "Block"
    /\ \E i \in 1..Len(result[1].matches) :
          result[1].matches[i].kind = "Literal" /\ result[1].matches[i].is_compressed
    /\ result[1].destination = arg.source_data

-----------------------------------------------------------------------------
(* Scanner faults: how the two scanners treat an entry they cannot read     *)

NoFault == [rel |-> <<"-">>, kind |-> "none"]

\* A fault of kind "entry" is an Err item of the walk in place of the entry
\* (nothing beneath it is walked); one of kind "metadata" is a failing
\* symlink_metadata or metadata call on an entry the walk did yield.
Faults(tree) ==
    {NoFault} \cup [ rel : {RootRel} \cup Present(tree), kind : {"entry", "metadata"} ]

Scanned(ok, files, warnings) == [ok |-> ok, files |-> files, warnings |-> warnings]

\* generate_file_list_with_options_and_progress: `let entry = entry?;` and
\* `symlink_metadata(path)?` return the error of the first entry that fails
generate_file_list_with_options(tree, root, opts, fault) ==
    IF fault.kind # "none"
    THEN Scanned(FALSE, <<>>, {})
    ELSE Scanned(TRUE, filtered_file_list(tree, root, opts), {})

\* generate_file_list_parallel: filter_map drops an Err item and an entry
\* whose metadata fails, and reports neither
generate_file_list_parallel(tree, root, opts, fault) ==
    LET lost(f) == \/ f.path.rel = fault.rel
                   \/ fault.kind = "entry" /\ IsBeneath(f.path.rel, fault.rel)
    IN Scanned(TRUE,
               SelectSeq(filtered_file_list(tree, root, opts),
                         LAMBDA f : fault.kind = "none" \/ ~lost(f)),
               {})

InitScan ==
    /\ Parked
    /\ \E tree \in { t \in TreesUpTo(MaxEntries) : \A r \in Present(t) : t[r] \in PlainNodes } :
          arg \in [ tree : {tree}, fault : Faults(tree), linux_optimized : BOOLEAN ]
    /\ result = <<>>

\* The scan of the source directory in sync_directories
ScanSource ==
    /\ result = <<>>
    /\ result' = << IF arg.linux_optimized
                    THEN generate_file_list_parallel(arg.tree, "src",
                             SyncOptions(FALSE, FALSE, FALSE, FALSE) @@ NoFilter, arg.fault)
                    ELSE generate_file_list_with_options(arg.tree, "src",
                             SyncOptions(FALSE, FALSE, FALSE, FALSE) @@ NoFilter, arg.fault) >>
    /\ UNCHANGED <<runVars, arg>>

NextScan == ScanSource

SpecScan == InitScan /\ [][NextScan]_vars

\* C25 (scanner error policy): a failure on the root aborts the scan; a
\* failure on any other entry is reported as a warning, the entry is skipped,
\* and every entry that is neither it nor beneath it is still returned.
C25_ScannerErrors ==
    (result # <<>> /\ arg.fault.kind # "none") =>
        IF arg.fault.rel = RootRel THEN ~result[1].ok
        ELSE /\ result[1].ok
             /\ arg.fault.rel \in result[1].warnings
             /\ { result[1].files[i].path.rel : i \in 1..Len(result[1].files) }
                  = { r \in {RootRel} \cup Present(arg.tree) :
                        r # arg.fault.rel /\ ~IsBeneath(r, arg.fault.rel) }

-----------------------------------------------------------------------------
(* The --confirm prompt of sync_directories (parallel_sync.rs 558-620)      *)

\* What the user types at "Continue? Y/n: ", as read_line returns it
ConfirmInputs == {"y\n", "YES\n", "\n", "n\n", "No\n", " q \n"}

\* input.trim().to_lowercase()
trim_to_lowercase(input) ==
    CASE input = "y\n" -> "y"
      [] input = "YES\n" -> "yes"
      [] input = "\n" -> ""
      [] input = "n\n" -> "n"
      [] input = "No\n" -> "no"
      [] OTHER -> "q"

\* Runs with --confirm on or off, on trees of at most two entries
InitConfirm ==
    /\ \E p \in TreesUpTo(2) \X TreesUpTo(2) :
          /\ Cardinality(Present(p[1])) + Cardinality(Present(p[2])) <= 2
          /\ fs = [src |-> p[1], dst |-> p[2], td |-> EmptyTree]
    /\ external = NoExternal
    /\ options = SyncOptions(FALSE, FALSE, FALSE, FALSE)
    /\ pc = "start"
    /\ run = 1
    /\ Idle
    /\ scanned = fs
    /\ arg \in [ confirm : BOOLEAN, input : ConfirmInputs ]
    /\ result = <<>>

\* if options.confirm && !operations.is_empty() { ... read_line ...
\*     if input != "y" && input != "yes" && !input.is_empty() {
\*         return Ok(SyncStats::default()); } }
ConfirmPrompt ==
    /\ pc = "dirs"
    /\ result = <<>>
    /\ LET input == trim_to_lowercase(arg.input)
       IN IF arg.confirm /\ operations # <<>>
             /\ input # "y" /\ input # "yes" /\ input # ""
          THEN pc' = "done" /\ result' = <<"cancelled">>
          ELSE pc' = pc /\ result' = <<"continue">>
    /\ UNCHANGED <<fs, external, options, run, source_files, dest_files, operations,
                   dir_ops, small_files, large_files, delete_ops, inflight, failed,
                   completed, scanned, arg>>

NextConfirm ==
    \/ Analyze
    \/ ConfirmPrompt
    \/ /\ result = <<"continue">>
       /\ \/ CreateDirStep
          \/ BeginSmall
          \/ \E op \in AllOps : StartSmall(op)
          \/ \E op \in AllOps : FinishSmall(op)
          \/ EndSmall
          \/ \E op \in AllOps : StartLarge(op)
          \/ \E op \in AllOps : FinishLarge(op)
          \/ EndLarge
          \/ DeleteStep
          \/ Finish

SpecConfirm == InitConfirm /\ [][NextConfirm]_vars

\* main returns the syncer's result: Ok is exit status 0, Err is non-zero
ExitStatus == IF pc = "error" THEN 1 ELSE 0

\* C26 (declined confirmation): when the user declines at the prompt, no
\* operation has been executed and the run ends with a non-zero exit status.
C26_DeclineIsError ==
    result = <<"cancelled">> =>
        /\ fs = scanned /\ completed = <<>>
        /\ ExitStatus # 0

-----------------------------------------------------------------------------
(* Runs without purge *)

\* C28 (no purge, no deletion): when neither purge nor mirror is set the plan
\* holds no Delete for a destination entry whose relative path the source
\* lacks, and after the run every such entry is in the destination as it was.
C28_NoDeleteWithoutPurge ==
    ~Purging =>
        /\ DestOnlyDeletes = <<>>
        /\ pc = "done" =>
              \A rel \in Rels :
                  (Exists(scanned["dst"], rel) /\ ~Exists(scanned["src"], rel))
                      => fs["dst"][rel] = scanned["dst"][rel]

-----------------------------------------------------------------------------
(* Destinations of the operations the worker pool runs *)

DestinationOf(op) == map_source_to_dest(op.path, "src", "dst").path

\* C30 (distinct destinations): no two operations of the plan among Create,
\* Update, CreateSymlink and UpdateSymlink map to the same destination path,
\* and no two operations the pool is running at the same time do.
C30_DistinctDestinations ==
    /\ \A i, j \in PlanIndex :
          (/\ i # j
           /\ operations[i].type \in {"Create", "Update", "CreateSymlink", "UpdateSymlink"}
           /\ operations[j].type \in {"Create", "Update", "CreateSymlink", "UpdateSymlink"})
              => DestinationOf(operations[i]) # DestinationOf(operations[j])
    /\ \A a, b \in inflight : a # b => DestinationOf(a) # DestinationOf(b)

\* Two workers are copying at the same time
C30_Witness ==
    /\ Cardinality(inflight) = 2
    /\ \A op \in inflight : op.type \in {"Create", "Update"}

====
